---- MODULE Spec2Model ----
(***************************************************************************)
(* CipherMesh (src/web/src/app/page.tsx): the Home component's state, its  *)
(* asynchronous handlers and effects, as a state machine.                  *)
(*                                                                         *)
(* Strings that the code takes apart (invite codes, space ids, secrets)    *)
(* are sequences of one-character strings.  A handler that awaits is two   *)
(* actions: the part before the await, which records what the closure      *)
(* captured, and the continuation, which reads the captured values and     *)
(* applies functional state updates to the state current at that moment.   *)
(*                                                                         *)
(* The state setters called in one synchronous stretch of a handler are    *)
(* batched into one render, and the effects of that render (syncPosts,     *)
(* lines 169-218) run before any other handler: an action holds the        *)
(* setters and the effect run they cause.  A handler is called from the    *)
(* render of the current state, so what its closure captures is the state  *)
(* at the moment it starts.                                                *)
(*                                                                         *)
(* Spec is the component on one device.  SpecCodec applies the invite      *)
(* codec to bounded strings, SpecMerge applies the snapshot merge to       *)
(* bounded collections, SpecShare adds a second device whose share code    *)
(* and snapshot this device joins with and imports, and SpecOverlap runs   *)
(* a post creation and a snapshot import that overlap after a join.        *)
(* lib/crypto is outside the source tree: its operators follow its         *)
(* documented contract.                                                    *)
(***************************************************************************)
EXTENDS Integers, Sequences, FiniteSets, TLC

VARIABLES
    hydrated,       \* useState(false), line 45
    initTask,       \* initialize(): the stored spaces whose keys are being imported
    profile,        \* useState<Profile | null>, line 46
    storedProfile,  \* localStorage item PROFILE_STORAGE_KEY (NoProfile: no item)
    storedSpaces,   \* localStorage item SPACE_STORAGE_KEY: the records it holds
    spaces,         \* useState<Record<string, PersistedSpace>>, line 50
    keys,           \* useState<Record<string, CryptoKey>>, line 51
    activeSpaceId,  \* useState<string | null>, line 52 (<<>> is null)
    visiblePosts,   \* useState<VisiblePost[]>, line 53
    syncTask,       \* the syncPosts run that is not cancelled, if it still awaits
    createState,    \* line 55: busy and error (name, description are inputs)
    createTask,     \* handleCreateSpace awaiting generateAesKey
    joinState,      \* line 62: busy and error (code is an input)
    joinTask,       \* handleJoinSpace awaiting importAesKey
    composer,       \* line 68: busy and error (value is an input)
    postTask,       \* handleCreatePost awaiting encryptText
    importTask,     \* file.text() pending, with the closure of handleImportSnapshot
    last,           \* the handler step taken last and what it read (history)
    ops,            \* how many handlers the user has started (history)
    codecPc,        \* invite codec harness: position
    codecId,        \* invite codec harness: the id part
    codecRest,      \* invite codec harness: the part after the separator
    codecCode,      \* invite codec harness: the invite code
    codecOut,       \* invite codec harness: the decoded pair
    mergePc,        \* reconcile harness: position
    mergeA,         \* reconcile harness: a post collection
    mergeB,         \* reconcile harness: another post collection
    mergeOut,       \* reconcile harness: the merged collections
    peer            \* another device: the space it created, with its key

appVars == <<hydrated, initTask, profile, storedProfile, storedSpaces, spaces,
             keys, activeSpaceId, visiblePosts, syncTask, createState, createTask,
             joinState, joinTask, composer, postTask, importTask, last, ops>>
codecVars == <<codecPc, codecId, codecRest, codecCode, codecOut>>
mergeVars == <<mergePc, mergeA, mergeB, mergeOut>>
harnessVars == <<codecVars, mergeVars, peer>>
vars == <<appVars, harnessVars>>

(***************************************************************************)
(* Bounds of the model.                                                    *)
(***************************************************************************)
MaxPosts == 2
MaxPending == 3
MaxOps == 2
MaxLen == 3

(***************************************************************************)
(* String helpers: what the JavaScript string methods used by the code do. *)
(***************************************************************************)
IsSpaceChar(c) == c = " "

RECURSIVE TrimStart(_)
TrimStart(s) ==
    IF s = <<>> THEN <<>>
    ELSE IF IsSpaceChar(Head(s)) THEN TrimStart(Tail(s)) ELSE s

RECURSIVE TrimEnd(_)
TrimEnd(s) ==
    IF s = <<>> THEN <<>>
    ELSE IF IsSpaceChar(s[Len(s)]) THEN TrimEnd(SubSeq(s, 1, Len(s) - 1)) ELSE s

Trim(s) == TrimEnd(TrimStart(s))

Includes(s, c) == \E i \in 1..Len(s) : s[i] = c

\* String.prototype.split with a one-character separator: every segment.
RECURSIVE SplitFrom(_, _, _)
SplitFrom(s, c, cur) ==
    IF s = <<>> THEN <<cur>>
    ELSE IF Head(s) = c THEN <<cur>> \o SplitFrom(Tail(s), c, <<>>)
    ELSE SplitFrom(Tail(s), c, Append(cur, Head(s)))

Split(s, c) == SplitFrom(s, c, <<>>)

\* String.prototype.slice(0, n)
Slice(s, n) == SubSeq(s, 1, IF Len(s) < n THEN Len(s) ELSE n)

(***************************************************************************)
(* Invite codec: shareCode (encode) and the decoding inside handleJoinSpace.*)
(***************************************************************************)
ShareCode(id, secret) == id \o <<":">> \o secret

\* DecodeParts without the legacy separator.
DecodePartsColonOnly(normalized) ==
    LET parts == Split(normalized, ":")
    IN  [spacePart |-> parts[1],
         secretPart |-> IF Len(parts) >= 2 THEN parts[2] ELSE <<>>]

\* Lines 297-299.
\* const [spacePart, secretPart] = ...: a missing element is undefined (<<>> here,
\* which the falsy test treats alike).
DecodeParts(normalized) ==
    LET parts == IF Includes(normalized, ":") THEN Split(normalized, ":")
                 ELSE Split(normalized, ".")
    IN  [spacePart |-> parts[1],
         secretPart |-> IF Len(parts) >= 2 THEN parts[2] ELSE <<>>]

\* Lines 285-303: trim, split, take the first two parts, reject an empty one.
DecodeInvite(code) ==
    LET normalized == Trim(code)
        p == DecodeParts(normalized)
    IN  [ok |-> normalized # <<>> /\ p.spacePart # <<>> /\ p.secretPart # <<>>,
         id |-> p.spacePart, secret |-> p.secretPart]

(***************************************************************************)
(* Values.                                                                 *)
(***************************************************************************)
Idle == [st |-> "idle"]
NoProfile == [none |-> TRUE]
NoId == <<>>                      \* null (and "", which the code's tests treat alike)

IdA == <<"a">>                    \* a space id known from storage and from invites
IdB == <<"b">>                    \* a space id crypto.randomUUID() may return
GenIds == {IdB}
KeyK == <<"k">>                   \* secrets that importAesKey accepts
KeyM == <<"m">>
BadSecret == <<"z">>              \* a secret that importAesKey rejects
ValidSecrets == {KeyK, KeyM}
GenSecrets == {KeyM}              \* what generateAesKey may return
Times == {1, 2}                   \* Date.now() when a post is made
SpaceTimes == {2}                 \* Date.now() when a space is made
Names == {<<"n">>, <<" ">>}       \* createState.name / profileDraft as typed
Messages == {<<"h">>, <<" ">>}    \* composer.value as typed
Placeholder == <<"Unable to decrypt message">>
Nonce == "iv"

ErrCreateName == "Choose a name to create a space."
ErrCreateFail == "We could not generate a new space. Try again."
ErrJoinEmpty == "Paste the invite code to continue."
ErrJoinFail == "That invite could not be verified. Check the code and retry."
ErrPostNoSpace == "Select a space before posting."
ErrPostNoProfile == "Set your profile and display name before posting."
ErrPostEmpty == "Write something first."
ErrPostNoKey == "Missing space key. Try re-joining the space."
ErrPostFail == "We could not encrypt that message. Try again."

(***************************************************************************)
(* lib/crypto, which page.tsx imports (line 4-9): modelled from its        *)
(* contract.  A key is identified by its material; a ciphertext records    *)
(* the key and nonce it was made with, and decrypts under those only.      *)
(***************************************************************************)
ImportOk(secret) == secret \in ValidSecrets
ImportAesKey(secret) == secret
EncryptText(key, message) ==
    [ciphertext |-> [key |-> key, text |-> message, nonce |-> Nonce], iv |-> Nonce]
DecryptOk(key, ciphertext, iv) == ciphertext.key = key /\ ciphertext.nonce = iv
DecryptText(key, ciphertext, iv) == ciphertext.text

(***************************************************************************)
(* Records.                                                                *)
(***************************************************************************)
\* EncryptedPost, lines 17-24
MkPost(id, authorId, authorName, enc, t) ==
    [id |-> id, authorId |-> authorId, authorName |-> authorName,
     ciphertext |-> enc.ciphertext, iv |-> enc.iv, createdAt |-> t]

\* PersistedSpace, lines 26-34
MkSpace(id, name, description, t, ownerId, secret, posts) ==
    [id |-> id, name |-> name, description |-> description, createdAt |-> t,
     ownerId |-> ownerId, secret |-> secret, posts |-> posts]

\* Posts made on another device, as they arrive in snapshots and in storage.
Foreign(id, key, t) == MkPost(id, "u9", <<"o">>, EncryptText(key, <<"x">>), t)
S2 == Foreign(2, KeyK, 1)         \* a post held in storage
P1 == Foreign(1, KeyK, 1)
P2m == Foreign(2, KeyM, 2)        \* the id of S2 with divergent content
LocalPostIds == {3}               \* what crypto.randomUUID() may return for a post

\* An element of a posts array that is no EncryptedPost: an object with an id and
\* a createdAt and none of the other fields (reading them gives undefined).
Undefined == "undefined"
Junk ==
    [id |-> 4, authorId |-> Undefined, authorName |-> <<>>,
     ciphertext |-> [key |-> <<>>, text |-> <<>>, nonce |-> Undefined],
     iv |-> Undefined, createdAt |-> 1]

\* A snapshot payload after atob and JSON.parse: malformed (atob or JSON.parse
\* throws, or the value has no posts array), or {posts: [...]}, whose elements
\* line 451 takes as they are.
Malformed == [ok |-> FALSE]
Snapshot(posts) == [ok |-> TRUE, posts |-> posts]
Payloads ==
    {Malformed, Snapshot(<<P2m, P1>>), Snapshot(<<P1, P1>>), Snapshot(<<Junk>>)}

\* What localStorage may hold under SPACE_STORAGE_KEY at mount: nothing, or the
\* Object.values of an earlier registry (distinct ids), whose secret importAesKey
\* accepts or, as lines 115-118 provide for, rejects.
StoredA(secret, posts) == MkSpace(IdA, <<"s">>, <<"d">>, 1, "u1", secret, posts)
StoredSpaces == {<<>>, <<StoredA(KeyK, <<S2>>)>>, <<StoredA(BadSecret, <<S2>>)>>}
StoredProfile == [id |-> "u1", name |-> <<"n">>, remember |-> TRUE]

\* An id of more than four characters, as every crypto.randomUUID() is.
IdLong == <<"a", "b", "c", "d", "e">>

\* Invite codes as pasted into joinState.code: for the id of the stored space,
\* for the id of a space created here and for an id this device never held.
JoinCodes ==
    {<<"a", ":", "k">>, <<"a", ".", "m">>, <<"a", ":", "z">>, <<"a", ":">>, <<" ">>,
     <<"b", ":", "k">>, IdLong \o <<":", "k">>}

(***************************************************************************)
(* Record<string, T> helpers.                                              *)
(***************************************************************************)
\* { ...m, [k]: v }
Put(m, k, v) == [x \in (DOMAIN m) \cup {k} |-> IF x = k THEN v ELSE m[x]]
EmptyMap == [x \in {} |-> 0]
Has(m, k) == k \in DOMAIN m

PostIds(posts) == {posts[i].id : i \in 1..Len(posts)}

(***************************************************************************)
(* syncPosts (lines 169-218): the visible feed of a key and a collection.  *)
(***************************************************************************)
\* Lines 191-203: one VisiblePost per post; a failed decryption is flagged.
ResolvePost(key, post) ==
    LET ok == DecryptOk(key, post.ciphertext, post.iv)
    IN  [id |-> post.id, authorId |-> post.authorId, authorName |-> post.authorName,
         ciphertext |-> post.ciphertext, iv |-> post.iv, createdAt |-> post.createdAt,
         content |-> IF ok THEN DecryptText(key, post.ciphertext, post.iv)
                     ELSE Placeholder,
         failed |-> ~ok]

\* Array.prototype.sort is stable: v goes behind every element that the comparator
\* b.createdAt - a.createdAt does not put after it.
RECURSIVE InsertDesc(_, _)
InsertDesc(s, v) ==
    IF s = <<>> THEN <<v>>
    ELSE IF Head(s).createdAt >= v.createdAt THEN <<Head(s)>> \o InsertDesc(Tail(s), v)
    ELSE <<v>> \o s

RECURSIVE SortFrom(_, _)
SortFrom(list, acc) ==
    IF list = <<>> THEN acc ELSE SortFrom(Tail(list), InsertDesc(acc, Head(list)))

\* Line 206
SortByCreatedAtDesc(list) == SortFrom(list, <<>>)

\* ResolveVisible without the catch of lines 195-202: a post that fails is left out.
ResolveVisibleOmitsFailed(key, posts) ==
    SortByCreatedAtDesc(SelectSeq([i \in 1..Len(posts) |-> ResolvePost(key, posts[i])],
                                  LAMBDA v : ~v.failed))

\* Lines 190-206
ResolveVisible(key, posts) ==
    SortByCreatedAtDesc([i \in 1..Len(posts) |-> ResolvePost(key, posts[i])])

\* SyncEffect without the cleanup of lines 215-217: a run that has nothing to
\* decrypt writes [] and the run in flight goes on to publish its list.
SyncEffectKeepsRun(a, sp, ks) ==
    IF a = NoId \/ ~Has(sp, a) \/ ~Has(ks, a) \/ sp[a].posts = <<>>
    THEN visiblePosts' = <<>> /\ syncTask' = syncTask
    ELSE /\ syncTask' = [st |-> "run", key |-> ks[a], posts |-> sp[a].posts,
                         done |-> {}]
         /\ UNCHANGED visiblePosts

\* The effect of lines 169-218 as it runs after a render in which activeSpaceId,
\* spaces or keys changed: the run in flight is cancelled; the new run writes []
\* at once when it has nothing to decrypt and otherwise awaits the decryptions.
SyncEffect(a, sp, ks) ==
    IF a = NoId \/ ~Has(sp, a) \/ ~Has(ks, a) \/ sp[a].posts = <<>>
    THEN visiblePosts' = <<>> /\ syncTask' = Idle
    ELSE /\ syncTask' = [st |-> "run", key |-> ks[a], posts |-> sp[a].posts,
                         done |-> {}]
         /\ UNCHANGED visiblePosts

\* The posts of the run in flight whose decryption attempt has not settled yet.
PendingDecryptions ==
    IF syncTask.st = "run" THEN (1..Len(syncTask.posts)) \ syncTask.done ELSE {}

\* Lines 191-203: the decryption attempt of one post of the run settles (resolves,
\* or rejects into the catch); the attempts settle in any order.
SyncDecrypt(i) ==
    /\ syncTask.st = "run"
    /\ i \in PendingDecryptions
    /\ syncTask' = [syncTask EXCEPT !.done = @ \cup {i}]
    /\ last' = [op |-> "decrypt"]
    /\ UNCHANGED <<hydrated, initTask, profile, storedProfile, storedSpaces,
                   spaces, keys, activeSpaceId, visiblePosts, createState,
                   createTask, joinState, joinTask, composer, postTask,
                   importTask, ops, harnessVars>>

\* The posts of a run whose decryption attempt has settled, in collection order.
SettledPosts(task) ==
    LET Pick[i \in 0..Len(task.posts)] ==
            IF i = 0 THEN <<>>
            ELSE IF i \in task.done THEN Append(Pick[i - 1], task.posts[i])
            ELSE Pick[i - 1]
    IN  Pick[Len(task.posts)]

\* SyncComplete if the list were published as the attempts settle, not after
\* Promise.all.
SyncCompleteStreams ==
    /\ syncTask.st = "run"
    /\ syncTask.done # {}
    /\ visiblePosts' = ResolveVisible(syncTask.key, SettledPosts(syncTask))
    /\ syncTask' = IF syncTask.done = 1..Len(syncTask.posts) THEN Idle ELSE syncTask
    /\ last' = [op |-> "sync"]
    /\ UNCHANGED <<hydrated, initTask, profile, storedProfile, storedSpaces,
                   spaces, keys, activeSpaceId, createState, createTask,
                   joinState, joinTask, composer, postTask, importTask, ops,
                   harnessVars>>

\* Lines 190, 206-210: Promise.all resolves when every attempt has settled; the
\* run that was not cancelled sorts and publishes its list.
SyncComplete ==
    /\ syncTask.st = "run"
    /\ syncTask.done = 1..Len(syncTask.posts)
    /\ visiblePosts' = ResolveVisible(syncTask.key, SettledPosts(syncTask))
    /\ syncTask' = Idle
    /\ last' = [op |-> "sync"]
    /\ UNCHANGED <<hydrated, initTask, profile, storedProfile, storedSpaces,
                   spaces, keys, activeSpaceId, createState, createTask,
                   joinState, joinTask, composer, postTask, importTask, ops,
                   harnessVars>>

(***************************************************************************)
(* The profile persistence effect (lines 148-158).                        *)
(***************************************************************************)
\* PersistProfile without the remember test of line 153.
PersistProfileIgnoresRemember(h, p) ==
    storedProfile' = IF ~h THEN storedProfile ELSE p

\* The effect as it runs after a render in which profile or hydrated changed:
\* nothing before hydration; then the item is set to the profile that is to be
\* remembered, and removed otherwise.
PersistProfile(h, p) ==
    storedProfile' = IF ~h THEN storedProfile
                     ELSE IF p # NoProfile /\ p.remember THEN p
                     ELSE NoProfile

\* The harnesses of the pure operations are off while the application runs.
\* JSON.stringify(Object.values(spaces)) as JSON.parse reads it back (lines 102,
\* 103, 165): the records with every field that has a value, the raw secret and
\* the posts among them; the order of the array is left out.
StoredRecords(sp) == {sp[id] : id \in DOMAIN sp}

\* PersistSpaces without the hydrated test of line 161.
PersistSpacesBeforeHydration(h, sp) == storedSpaces' = StoredRecords(sp)

\* The effect of lines 160-167, run by a render that changed spaces or hydrated.
PersistSpaces(h, sp) ==
    storedSpaces' = IF h THEN StoredRecords(sp) ELSE storedSpaces

MergeOff == mergePc = "off" /\ mergeA = <<>> /\ mergeB = <<>> /\ mergeOut = <<>>
PeerOff == peer = [st |-> "off"]

(***************************************************************************)
(* Mount: the state after the first render and its effects (lines 79-146). *)
(***************************************************************************)
Init ==
    /\ \E stored \in StoredSpaces :
         /\ storedSpaces = {stored[i] : i \in 1..Len(stored)}
         /\ IF stored = <<>>
            THEN hydrated = TRUE /\ initTask = Idle
            ELSE hydrated = FALSE /\ initTask = [st |-> "run", parsed |-> stored]
    /\ profile \in {NoProfile, StoredProfile}
    /\ storedProfile = profile
    /\ spaces = EmptyMap
    /\ keys = EmptyMap
    /\ activeSpaceId = NoId
    /\ visiblePosts = <<>>
    /\ syncTask = Idle
    /\ createState = [busy |-> FALSE, error |-> ""]
    /\ createTask = Idle
    /\ joinState = [busy |-> FALSE, error |-> ""]
    /\ joinTask = Idle
    /\ composer = [busy |-> FALSE, error |-> ""]
    /\ postTask = Idle
    /\ importTask = Idle
    /\ last = [op |-> "mount"]
    /\ ops = 0
    /\ codecPc = "off"
    /\ codecId = <<>>
    /\ codecRest = <<>>
    /\ codecCode = <<>>
    /\ codecOut = [ok |-> FALSE, id |-> <<>>, secret |-> <<>>]
    /\ MergeOff
    /\ PeerOff

\* Lines 105-111: nextSpaces[space.id] = {...space, posts}; a later record of the
\* same id replaces an earlier one.
NextSpacesOf(parsed) ==
    [id \in {parsed[i].id : i \in 1..Len(parsed)} |->
        parsed[CHOOSE i \in 1..Len(parsed) :
                  parsed[i].id = id /\ \A j \in (i + 1)..Len(parsed) : parsed[j].id # id]]

\* Lines 112-126: the entries whose import succeeded, as Object.fromEntries reads them.
ImportedKeysOf(parsed) ==
    LET good == {i \in 1..Len(parsed) : ImportOk(parsed[i].secret)}
    IN  [id \in {parsed[i].id : i \in good} |->
            ImportAesKey(parsed[CHOOSE i \in good :
                  parsed[i].id = id /\ \A j \in good : j > i => parsed[j].id # id].secret)]

\* HydrateComplete without lines 127-129: the active id is left as it is.
HydrateCompleteKeepsActive ==
    /\ initTask.st = "run"
    /\ LET parsed == initTask.parsed
       IN  /\ spaces' = NextSpacesOf(parsed)
           /\ keys' = ImportedKeysOf(parsed)
           /\ last' = [op |-> "hydrate", lost |-> (DOMAIN spaces) \ DOMAIN spaces']
    /\ hydrated' = TRUE
    /\ initTask' = Idle
    /\ SyncEffect(activeSpaceId, spaces', keys')
    /\ PersistProfile(TRUE, profile)
    /\ PersistSpaces(TRUE, spaces')
    /\ UNCHANGED <<profile, activeSpaceId, createState, createTask, joinState,
                   joinTask, composer, postTask, importTask, ops,
                   harnessVars>>

\* Lines 120-138: the continuation of initialize after Promise.all.
HydrateComplete ==
    /\ initTask.st = "run"
    /\ LET parsed == initTask.parsed
       IN  /\ spaces' = NextSpacesOf(parsed)
           /\ keys' = ImportedKeysOf(parsed)
           /\ activeSpaceId' = IF Len(parsed) > 0 THEN parsed[1].id ELSE activeSpaceId
           /\ last' = [op |-> "hydrate", lost |-> (DOMAIN spaces) \ DOMAIN spaces']
    /\ hydrated' = TRUE
    /\ initTask' = Idle
    /\ SyncEffect(activeSpaceId', spaces', keys')
    /\ PersistProfile(TRUE, profile)
    /\ PersistSpaces(TRUE, spaces')
    /\ UNCHANGED <<profile, createState, createTask, joinState, joinTask,
                   composer, postTask, importTask, ops, harnessVars>>

(***************************************************************************)
(* handleProfileSave (lines 220-231) and the remember checkbox.            *)
(***************************************************************************)
\* The form is rendered while there is no profile; a blank draft returns at once.
\* Handlers that await something (the bound MaxPending caps how many overlap).
Pending ==
    Cardinality({t \in {"init", "create", "join", "post", "import"} :
        CASE t = "init" -> initTask.st = "run"
          [] t = "create" -> createTask.st = "run"
          [] t = "join" -> joinTask.st = "run"
          [] t = "post" -> postTask.st = "run"
          [] OTHER -> importTask.st = "run"})

\* The user starts one more handler.
CanStart == Pending < MaxPending /\ ops < MaxOps /\ ops' = ops + 1

ProfileSave(draft, remember) ==
    /\ ops < MaxOps /\ ops' = ops + 1
    /\ profile = NoProfile
    /\ Trim(draft) # <<>>
    /\ profile' = [id |-> "u1", name |-> Trim(draft), remember |-> remember]
    /\ PersistProfile(hydrated, profile')
    /\ last' = [op |-> "profile"]
    /\ UNCHANGED <<hydrated, initTask, storedSpaces, spaces, keys,
                   activeSpaceId, visiblePosts, syncTask, createState,
                   createTask, joinState, joinTask, composer, postTask,
                   importTask, harnessVars>>

\* Lines 515-524: the checkbox shown for a profile; a change event carries the
\* other value of checked.
ToggleRemember(checked) ==
    /\ ops < MaxOps /\ ops' = ops + 1
    /\ profile # NoProfile
    /\ checked # profile.remember
    /\ profile' = [profile EXCEPT !.remember = checked]
    /\ PersistProfile(hydrated, profile')
    /\ last' = [op |-> "remember"]
    /\ UNCHANGED <<hydrated, initTask, storedSpaces, spaces, keys,
                   activeSpaceId, visiblePosts, syncTask, createState,
                   createTask, joinState, joinTask, composer, postTask,
                   importTask, harnessVars>>

(***************************************************************************)
(* handleCreateSpace (lines 233-282).                                      *)
(***************************************************************************)
\* Lines 234-245, up to the await; the button is disabled while busy.
CreateStart(name) ==
    /\ ~createState.busy
    /\ CanStart
    /\ GenIds \ DOMAIN spaces # {}
    /\ IF Trim(name) = <<>>
       THEN /\ createState' = [createState EXCEPT !.error = ErrCreateName]
            /\ last' = [op |-> "createRejected"]
            /\ UNCHANGED createTask
       ELSE /\ createState' = [busy |-> TRUE, error |-> ""]
            /\ createTask' = [st |-> "run", name |-> Trim(name),
                              ownerId |-> IF profile = NoProfile THEN "anonymous"
                                          ELSE profile.id]
            /\ last' = [op |-> "createStart"]
    /\ UNCHANGED <<hydrated, initTask, profile, storedProfile, storedSpaces,
                   spaces, keys, activeSpaceId, visiblePosts, syncTask,
                   joinState, joinTask, composer, postTask, importTask,
                   harnessVars>>

\* Lines 245-273: generateAesKey resolved.
CreateDone ==
    /\ createTask.st = "run"
    /\ \E secret \in GenSecrets, id \in GenIds \ DOMAIN spaces, t \in SpaceTimes :
         LET space == MkSpace(id, createTask.name, <<>>, t, createTask.ownerId,
                              secret, <<>>)
         IN  /\ spaces' = Put(spaces, id, space)
             /\ keys' = Put(keys, id, ImportAesKey(secret))
             /\ activeSpaceId' = id
             /\ last' = [op |-> "create", id |-> id,
                         cancelled |-> syncTask.st = "run"]
    /\ createState' = [busy |-> FALSE, error |-> ""]
    /\ createTask' = Idle
    /\ SyncEffect(activeSpaceId', spaces', keys')
    /\ PersistSpaces(hydrated, spaces')
    /\ UNCHANGED <<hydrated, initTask, profile, storedProfile, joinState,
                   joinTask, composer, postTask, importTask, ops,
                   harnessVars>>

\* Lines 274-281: generateAesKey rejected.
CreateFail ==
    /\ createTask.st = "run"
    /\ createState' = [busy |-> FALSE, error |-> ErrCreateFail]
    /\ createTask' = Idle
    /\ last' = [op |-> "createFail"]
    /\ UNCHANGED <<hydrated, initTask, profile, storedProfile, storedSpaces,
                   spaces, keys, activeSpaceId, visiblePosts, syncTask,
                   joinState, joinTask, composer, postTask, importTask, ops,
                   harnessVars>>

(***************************************************************************)
(* handleJoinSpace (lines 284-339).                                        *)
(***************************************************************************)
\* What the closure's `spaces` holds for the id: line 306 reads it after the
\* await, from the render in which the handler was created.
CapturedExisting(id) == IF Has(spaces, id) THEN <<spaces[id]>> ELSE <<>>

\* Lines 285-305, up to the await; a code that does not decode throws into the
\* catch of lines 331-338 within the same call.
JoinStart(code) ==
    /\ ~joinState.busy
    /\ CanStart
    /\ LET d == DecodeInvite(code)
       IN  IF Trim(code) = <<>>
           THEN /\ joinState' = [joinState EXCEPT !.error = ErrJoinEmpty]
                /\ last' = [op |-> "joinEmpty"]
                /\ UNCHANGED joinTask
           ELSE IF ~d.ok
           THEN /\ joinState' = [busy |-> FALSE, error |-> ErrJoinFail]
                /\ last' = [op |-> "joinInvalid"]
                /\ UNCHANGED joinTask
           ELSE /\ joinState' = [busy |-> TRUE, error |-> ""]
                /\ joinTask' = [st |-> "run", spacePart |-> d.id,
                                secretPart |-> d.secret,
                                existing |-> CapturedExisting(d.id)]
                /\ last' = [op |-> "joinStart"]
    /\ UNCHANGED <<hydrated, initTask, profile, storedProfile, storedSpaces,
                   spaces, keys, activeSpaceId, visiblePosts, syncTask,
                   createState, createTask, composer, postTask, importTask,
                   harnessVars>>

\* DraftSpace without line 317: an existing space keeps its stored secret.
DraftSpaceKeepsSecret(existing, spacePart, secretPart, t) ==
    IF existing # <<>>
    THEN existing[1]
    ELSE MkSpace(spacePart, <<"Joined Space ">> \o Slice(spacePart, 4), <<>>, t,
                 "external", secretPart, <<>>)

\* DraftSpace with the whole id in the placeholder name (no slice(0, 4)).
DraftSpaceNamedByWholeId(existing, spacePart, secretPart, t) ==
    IF existing # <<>>
    THEN [existing[1] EXCEPT !.secret = secretPart]
    ELSE MkSpace(spacePart, <<"Joined Space ">> \o spacePart, <<>>, t,
                 "external", secretPart, <<>>)

\* Lines 307-317: existing ?? {...}, then draftSpace.secret = secretPart.
DraftSpace(existing, spacePart, secretPart, t) ==
    IF existing # <<>>
    THEN [existing[1] EXCEPT !.secret = secretPart]
    ELSE MkSpace(spacePart, <<"Joined Space ">> \o Slice(spacePart, 4), <<>>, t,
                 "external", secretPart, <<>>)

\* Lines 305-330: importAesKey resolved.
JoinDone ==
    /\ joinTask.st = "run"
    /\ ImportOk(joinTask.secretPart)
    /\ \E t \in SpaceTimes :
         LET draft == DraftSpace(joinTask.existing, joinTask.spacePart,
                                 joinTask.secretPart, t)
         IN  /\ spaces' = Put(spaces, draft.id, draft)
             /\ keys' = Put(keys, draft.id, ImportAesKey(joinTask.secretPart))
             /\ activeSpaceId' = draft.id
             /\ last' = [op |-> "join", id |-> draft.id,
                         existed |-> Has(spaces, draft.id),
                         captured |-> joinTask.existing # <<>>]
    /\ joinState' = [busy |-> FALSE, error |-> ""]
    /\ joinTask' = Idle
    /\ SyncEffect(activeSpaceId', spaces', keys')
    /\ PersistSpaces(hydrated, spaces')
    /\ UNCHANGED <<hydrated, initTask, profile, storedProfile, createState,
                   createTask, composer, postTask, importTask, ops,
                   harnessVars>>

\* JoinFail had line 317 run before the import: the secret of a space the closure
\* holds is already overwritten when the import rejects.
JoinFailAfterOverwrite ==
    /\ joinTask.st = "run"
    /\ ~ImportOk(joinTask.secretPart)
    /\ joinState' = [busy |-> FALSE, error |-> ErrJoinFail]
    /\ joinTask' = Idle
    /\ last' = [op |-> "joinFail"]
    /\ spaces' = IF Has(spaces, joinTask.spacePart)
                 THEN Put(spaces, joinTask.spacePart,
                          [spaces[joinTask.spacePart] EXCEPT
                              !.secret = joinTask.secretPart])
                 ELSE spaces
    /\ PersistSpaces(hydrated, spaces')
    /\ UNCHANGED <<hydrated, initTask, profile, storedProfile, keys,
                   activeSpaceId, visiblePosts, syncTask, createState,
                   createTask, composer, postTask, importTask, ops,
                   harnessVars>>

\* Lines 331-338: importAesKey rejected.
JoinFail ==
    /\ joinTask.st = "run"
    /\ ~ImportOk(joinTask.secretPart)
    /\ joinState' = [busy |-> FALSE, error |-> ErrJoinFail]
    /\ joinTask' = Idle
    /\ last' = [op |-> "joinFail"]
    /\ UNCHANGED <<hydrated, initTask, profile, storedProfile, storedSpaces,
                   spaces, keys, activeSpaceId, visiblePosts, syncTask,
                   createState, createTask, composer, postTask, importTask,
                   ops, harnessVars>>

(***************************************************************************)
(* handleCreatePost (lines 341-406).                                       *)
(***************************************************************************)
\* useMemo of lines 74-77
ActiveSpaceExists == activeSpaceId # NoId /\ Has(spaces, activeSpaceId)

\* Post ids that crypto.randomUUID() cannot return again: those still held.
HeldPostIds ==
    UNION {PostIds(spaces[id].posts) : id \in DOMAIN spaces}
    \cup (IF joinTask.st = "run" /\ joinTask.existing # <<>>
          THEN PostIds(joinTask.existing[1].posts) ELSE {})

\* Lines 342-376, up to the await.  The composer is rendered for an active space
\* only and its button is disabled while busy.
PostStart(value) ==
    /\ ~composer.busy
    /\ CanStart
    /\ ActiveSpaceExists
    /\ Len(spaces[activeSpaceId].posts) < MaxPosts
    /\ LocalPostIds \ HeldPostIds # {}
    /\ LET message == Trim(value)
           reject == IF activeSpaceId = NoId THEN ErrPostNoSpace
                     ELSE IF profile = NoProfile THEN ErrPostNoProfile
                     ELSE IF message = <<>> THEN ErrPostEmpty
                     ELSE IF ~Has(keys, activeSpaceId) THEN ErrPostNoKey
                     ELSE ""
       IN  IF reject # ""
           THEN /\ composer' = [composer EXCEPT !.error = reject]
                /\ last' = [op |-> "postRejected"]
                /\ UNCHANGED postTask
           ELSE /\ composer' = [busy |-> TRUE, error |-> ""]
                /\ postTask' = [st |-> "run", spaceId |-> activeSpaceId,
                                key |-> keys[activeSpaceId], authorId |-> profile.id,
                                authorName |-> profile.name, message |-> message]
                /\ last' = [op |-> "postStart"]
    /\ UNCHANGED <<hydrated, initTask, profile, storedProfile, storedSpaces,
                   spaces, keys, activeSpaceId, visiblePosts, syncTask,
                   createState, createTask, joinState, joinTask, importTask,
                   harnessVars>>

\* Lines 386-395: the functional update that appends the post.
AppendPost(prev, spaceId, post) ==
    IF ~Has(prev, spaceId) THEN prev
    ELSE Put(prev, spaceId,
             [prev[spaceId] EXCEPT !.posts = Append(prev[spaceId].posts, post)])

\* Lines 376-397: encryptText resolved.
PostDone ==
    /\ postTask.st = "run"
    /\ \E id \in LocalPostIds \ HeldPostIds, t \in Times :
         LET post == MkPost(id, postTask.authorId, postTask.authorName,
                            EncryptText(postTask.key, postTask.message), t)
         IN  /\ spaces' = AppendPost(spaces, postTask.spaceId, post)
             /\ last' = [op |-> "post", id |-> postTask.spaceId]
    /\ composer' = [busy |-> FALSE, error |-> ""]
    /\ postTask' = Idle
    /\ IF Has(spaces, postTask.spaceId)
       THEN SyncEffect(activeSpaceId, spaces', keys)
       ELSE UNCHANGED <<visiblePosts, syncTask>>
    /\ PersistSpaces(hydrated, spaces')
    /\ UNCHANGED <<hydrated, initTask, profile, storedProfile, keys,
                   activeSpaceId, createState, createTask, joinState,
                   joinTask, importTask, ops, harnessVars>>

\* Lines 398-405: encryptText rejected.
PostFail ==
    /\ postTask.st = "run"
    /\ composer' = [busy |-> FALSE, error |-> ErrPostFail]
    /\ postTask' = Idle
    /\ last' = [op |-> "postFail"]
    /\ UNCHANGED <<hydrated, initTask, profile, storedProfile, storedSpaces,
                   spaces, keys, activeSpaceId, visiblePosts, syncTask,
                   createState, createTask, joinState, joinTask, importTask,
                   ops, harnessVars>>

(***************************************************************************)
(* handleImportSnapshot (lines 433-467), called when file.text() resolves. *)
(***************************************************************************)
\* Lines 448-455: existingIds is computed once, from the target's posts.
RECURSIVE MergeFrom(_, _, _)
MergeFrom(merged, existingIds, incoming) ==
    IF incoming = <<>> THEN merged
    ELSE MergeFrom(IF Head(incoming).id \in existingIds THEN merged
                   ELSE Append(merged, Head(incoming)),
                   existingIds, Tail(incoming))

\* Reconcile without the existingIds test of line 452: every incoming record is
\* pushed.
ReconcileAppendsAll(local, incoming) == local \o incoming

\* Reconcile with the incoming record replacing the local one of the same id.
ReconcileIncomingWins(local, incoming) ==
    LET hit(p) == {i \in 1..Len(incoming) : incoming[i].id = p.id}
        kept == [i \in 1..Len(local) |->
                    IF hit(local[i]) = {} THEN local[i]
                    ELSE incoming[CHOOSE j \in hit(local[i]) : TRUE]]
    IN  MergeFrom(kept, PostIds(local), incoming)

\* Lines 448-455
Reconcile(local, incoming) == MergeFrom(local, PostIds(local), incoming)

\* btoa (line 429) takes characters up to U+00FF and throws on any other.
WideChar == "W"                   \* stands for a character above U+00FF
Latin1(text) == \A i \in 1..Len(text) : text[i] # WideChar

\* handleExportSnapshot (lines 419-431), read back by atob and JSON.parse of line
\* 439: the posts array of the space as it is, under the name posts (meta, which
\* the import does not read, is left out); nothing is copied when btoa throws.
ExportSnapshot(space) ==
    IF Latin1(space.name)
       /\ \A i \in 1..Len(space.posts) : Latin1(space.posts[i].authorName)
    THEN Snapshot(space.posts)
    ELSE Malformed

\* The file input is rendered for an active space only; the callback keeps the
\* handleImportSnapshot of that render, and with it that render's activeSpaceId.
ImportStart(payload) ==
    /\ importTask.st = "idle"
    /\ CanStart
    /\ ActiveSpaceExists
    /\ payload.ok =>
         Len(Reconcile(spaces[activeSpaceId].posts, payload.posts)) <= MaxPosts
    /\ importTask' = [st |-> "run", target |-> activeSpaceId, payload |-> payload]
    /\ last' = [op |-> "importStart"]
    /\ UNCHANGED <<hydrated, initTask, profile, storedProfile, storedSpaces,
                   spaces, keys, activeSpaceId, visiblePosts, syncTask,
                   createState, createTask, joinState, joinTask, composer,
                   postTask, harnessVars>>

\* Lines 443-463: the functional update that merges the snapshot.
MergeSnapshot(prev, target, incoming) ==
    IF ~Has(prev, target) THEN prev
    ELSE Put(prev, target,
             [prev[target] EXCEPT !.posts = Reconcile(prev[target].posts, incoming)])

\* Lines 434-463: a well-formed payload.
ImportDone ==
    /\ importTask.st = "run"
    /\ importTask.target # NoId
    /\ importTask.payload.ok
    /\ spaces' = MergeSnapshot(spaces, importTask.target, importTask.payload.posts)
    /\ last' = [op |-> "import", id |-> importTask.target]
    /\ importTask' = Idle
    /\ IF Has(spaces, importTask.target)
       THEN SyncEffect(activeSpaceId, spaces', keys)
       ELSE UNCHANGED <<visiblePosts, syncTask>>
    /\ PersistSpaces(hydrated, spaces')
    /\ UNCHANGED <<hydrated, initTask, profile, storedProfile, keys,
                   activeSpaceId, createState, createTask, joinState,
                   joinTask, composer, postTask, ops, harnessVars>>

\* Lines 438-442, 464-466: a payload that does not parse, or has no posts array.
ImportReject ==
    /\ importTask.st = "run"
    /\ importTask.target # NoId
    /\ ~importTask.payload.ok
    /\ importTask' = Idle
    /\ last' = [op |-> "importReject"]
    /\ UNCHANGED <<hydrated, initTask, profile, storedProfile, storedSpaces,
                   spaces, keys, activeSpaceId, visiblePosts, syncTask,
                   createState, createTask, joinState, joinTask, composer,
                   postTask, ops, harnessVars>>

(***************************************************************************)
(* The space list: onClick={() => setActiveSpaceId(space.id)}.             *)
(***************************************************************************)
SelectSpace(id) ==
    /\ ops < MaxOps /\ ops' = ops + 1
    /\ Has(spaces, id)
    /\ id # activeSpaceId
    /\ activeSpaceId' = id
    /\ last' = [op |-> "select"]
    /\ SyncEffect(id, spaces, keys)
    /\ UNCHANGED <<hydrated, initTask, profile, storedProfile, storedSpaces,
                   spaces, keys, createState, createTask, joinState, joinTask,
                   composer, postTask, importTask, harnessVars>>

Next ==
    \/ HydrateComplete
    \/ \E i \in PendingDecryptions : SyncDecrypt(i)
    \/ SyncComplete
    \/ \E draft \in Names, remember \in BOOLEAN : ProfileSave(draft, remember)
    \/ \E checked \in BOOLEAN : ToggleRemember(checked)
    \/ \E name \in Names : CreateStart(name)
    \/ CreateDone
    \/ CreateFail
    \/ \E code \in JoinCodes : JoinStart(code)
    \/ JoinDone
    \/ JoinFail
    \/ \E value \in Messages : PostStart(value)
    \/ PostDone
    \/ PostFail
    \/ \E payload \in Payloads : ImportStart(payload)
    \/ ImportDone
    \/ ImportReject
    \/ \E id \in DOMAIN spaces : SelectSpace(id)

Spec == Init /\ [][Next]_vars

(***************************************************************************)
(* The invite codec on its own: an id and a rest are drawn, joined with    *)
(* the canonical separator (shareCode) or the legacy one, and decoded as   *)
(* handleJoinSpace decodes joinState.code.                                 *)
(***************************************************************************)
Chars == {"a", ":", ".", " "}
Strings(n) == UNION {[1..k -> Chars] : k \in 0..n}

InitCodec ==
    /\ hydrated = TRUE
    /\ initTask = Idle
    /\ profile = NoProfile
    /\ storedProfile = NoProfile
    /\ storedSpaces = {}
    /\ spaces = EmptyMap
    /\ keys = EmptyMap
    /\ activeSpaceId = NoId
    /\ visiblePosts = <<>>
    /\ syncTask = Idle
    /\ createState = [busy |-> FALSE, error |-> ""]
    /\ createTask = Idle
    /\ joinState = [busy |-> FALSE, error |-> ""]
    /\ joinTask = Idle
    /\ composer = [busy |-> FALSE, error |-> ""]
    /\ postTask = Idle
    /\ importTask = Idle
    /\ last = [op |-> "mount"]
    /\ ops = 0
    /\ codecPc = "input"
    /\ codecId \in Strings(MaxLen - 1)
    /\ codecRest \in Strings(MaxLen)
    /\ codecCode = <<>>
    /\ codecOut = [ok |-> FALSE, id |-> <<>>, secret |-> <<>>]
    /\ MergeOff
    /\ PeerOff

\* Lines 469-472: `${activeSpace.id}:${activeSpace.secret}`
EncodeCanonical ==
    /\ codecPc = "input"
    /\ codecCode' = ShareCode(codecId, codecRest)
    /\ codecPc' = "canonical"
    /\ UNCHANGED <<appVars, mergeVars, peer, codecId, codecRest, codecOut>>

\* An invite built with the legacy separator, which lines 297-299 accept.
EncodeLegacy ==
    /\ codecPc = "input"
    /\ codecCode' = codecId \o <<".">> \o codecRest
    /\ codecPc' = "legacy"
    /\ UNCHANGED <<appVars, mergeVars, peer, codecId, codecRest, codecOut>>

\* Lines 296-303 on the code.
DecodeStep ==
    /\ codecPc \in {"canonical", "legacy"}
    /\ codecOut' = DecodeInvite(codecCode)
    /\ codecPc' = IF codecPc = "canonical" THEN "decoded" ELSE "decodedLegacy"
    /\ UNCHANGED <<appVars, mergeVars, peer, codecId, codecRest, codecCode>>

NextCodec == EncodeCanonical \/ EncodeLegacy \/ DecodeStep

SpecCodec == InitCodec /\ [][NextCodec]_vars

(***************************************************************************)
(* Reconcile on its own: two post collections with ids unique within each  *)
(* are drawn and merged as handleImportSnapshot merges a snapshot into the *)
(* target's posts (lines 448-455).                                         *)
(***************************************************************************)
\* Posts as two devices may hold them: the same id with divergent content, and
\* an author name that btoa does not take.
MergePool ==
    {Foreign(id, KeyK, 1) : id \in 1..(MaxPosts + 1)}
    \cup {Foreign(id, KeyM, 2) : id \in 1..(MaxPosts + 1)}
    \cup {[Foreign(1, KeyK, 2) EXCEPT !.authorName = <<WideChar>>]}

UniqueIds(posts) ==
    \A i, j \in 1..Len(posts) : posts[i].id = posts[j].id => i = j

Collections ==
    {posts \in UNION {[1..k -> MergePool] : k \in 0..MaxPosts} : UniqueIds(posts)}

\* The application is at rest after mount, with nothing stored.
AppAtRest ==
    /\ hydrated = TRUE
    /\ initTask = Idle
    /\ profile = NoProfile
    /\ storedProfile = NoProfile
    /\ storedSpaces = {}
    /\ spaces = EmptyMap
    /\ keys = EmptyMap
    /\ activeSpaceId = NoId
    /\ visiblePosts = <<>>
    /\ syncTask = Idle
    /\ createState = [busy |-> FALSE, error |-> ""]
    /\ createTask = Idle
    /\ joinState = [busy |-> FALSE, error |-> ""]
    /\ joinTask = Idle
    /\ composer = [busy |-> FALSE, error |-> ""]
    /\ postTask = Idle
    /\ importTask = Idle
    /\ last = [op |-> "mount"]
    /\ ops = 0

InitMerge ==
    /\ AppAtRest
    /\ codecPc = "off"
    /\ codecId = <<>>
    /\ codecRest = <<>>
    /\ codecCode = <<>>
    /\ codecOut = [ok |-> FALSE, id |-> <<>>, secret |-> <<>>]
    /\ mergePc = "input"
    /\ mergeA \in Collections
    /\ mergeB \in Collections
    /\ mergeOut = <<>>
    /\ PeerOff

\* Lines 448-455 with the target's own posts as the incoming array.
ReconcileSelf ==
    /\ mergePc = "input"
    /\ mergeOut' = <<Reconcile(mergeA, mergeA)>>
    /\ mergePc' = "self"
    /\ UNCHANGED <<appVars, codecVars, peer, mergeA, mergeB>>

\* Lines 419-431, then 439-455: the space's export imported into the space.
ReconcileOwnExport ==
    /\ mergePc = "input"
    /\ LET exported == ExportSnapshot(StoredA(KeyK, mergeA))
       IN  /\ exported.ok
           /\ mergeOut' = <<Reconcile(mergeA, exported.posts)>>
    /\ mergePc' = "reimport"
    /\ UNCHANGED <<appVars, codecVars, peer, mergeA, mergeB>>

\* Lines 448-455 on two devices: each merges the other's posts into its own.
ReconcileBoth ==
    /\ mergePc = "input"
    /\ mergeOut' = <<Reconcile(mergeA, mergeB), Reconcile(mergeB, mergeA)>>
    /\ mergePc' = "both"
    /\ UNCHANGED <<appVars, codecVars, peer, mergeA, mergeB>>

NextMerge == ReconcileSelf \/ ReconcileOwnExport \/ ReconcileBoth

SpecMerge == InitMerge /\ [][NextMerge]_vars

(***************************************************************************)
(* Two devices: another device runs the same program, creates a space and  *)
(* posts to it; this device joins with that space's share code and then    *)
(* imports that space's snapshot.                                          *)
(***************************************************************************)
\* Post ids crypto.randomUUID() returns on the other device: none that a post
\* made elsewhere has.
PeerPostIds == {1, 3}

\* This device as at mount (Init), the other device about to create its space.
InitShare ==
    /\ \E stored \in StoredSpaces :
         /\ storedSpaces = {stored[i] : i \in 1..Len(stored)}
         /\ IF stored = <<>>
            THEN hydrated = TRUE /\ initTask = Idle
            ELSE hydrated = FALSE /\ initTask = [st |-> "run", parsed |-> stored]
    /\ profile \in {NoProfile, StoredProfile}
    /\ storedProfile = profile
    /\ spaces = EmptyMap
    /\ keys = EmptyMap
    /\ activeSpaceId = NoId
    /\ visiblePosts = <<>>
    /\ syncTask = Idle
    /\ createState = [busy |-> FALSE, error |-> ""]
    /\ createTask = Idle
    /\ joinState = [busy |-> FALSE, error |-> ""]
    /\ joinTask = Idle
    /\ composer = [busy |-> FALSE, error |-> ""]
    /\ postTask = Idle
    /\ importTask = Idle
    /\ last = [op |-> "mount"]
    /\ ops = 0
    /\ codecPc = "off"
    /\ codecId = <<>>
    /\ codecRest = <<>>
    /\ codecCode = <<>>
    /\ codecOut = [ok |-> FALSE, id |-> <<>>, secret |-> <<>>]
    /\ MergeOff
    /\ peer = [st |-> "start"]

\* handleCreateSpace on the other device (lines 245-265): the space and the key
\* that generateAesKey returned with its secret.
PeerCreate ==
    /\ peer.st = "start"
    /\ \E secret \in ValidSecrets :
         peer' = [st |-> "made",
                  space |-> MkSpace(IdA, <<"s">>, <<>>, 1, "u9", secret, <<>>),
                  key |-> ImportAesKey(secret)]
    /\ UNCHANGED <<appVars, codecVars, mergeVars>>

\* handleCreatePost on the other device (lines 376-395), before it shares.
PeerPost ==
    /\ peer.st = "made"
    /\ ops = 0
    /\ Len(peer.space.posts) < MaxPosts
    /\ \E id \in PeerPostIds \ PostIds(peer.space.posts), t \in Times :
         peer' = [peer EXCEPT !.space.posts =
                     Append(@, MkPost(id, "u9", <<"o">>,
                                      EncryptText(peer.key, <<"x">>), t))]
    /\ UNCHANGED <<appVars, codecVars, mergeVars>>

\* handleJoinSpace here with the share code of the other device's space
\* (lines 469-472 there).
ShareJoin ==
    /\ peer.st = "made"
    /\ peer.space.posts # <<>>
    /\ ops = 0
    /\ JoinStart(ShareCode(peer.space.id, peer.space.secret))

\* After the join has succeeded: the file that holds the other device's
\* snapshot (lines 419-431 there) is picked for import.
ShareImport ==
    /\ peer.st = "made"
    /\ ops = 1
    /\ joinTask.st = "idle" /\ joinState.error = ""
    /\ ExportSnapshot(peer.space).ok
    /\ ImportStart(ExportSnapshot(peer.space))

NextShare ==
    \/ PeerCreate
    \/ PeerPost
    \/ ShareJoin
    \/ JoinDone
    \/ ShareImport
    \/ ImportDone
    \/ HydrateComplete
    \/ \E i \in PendingDecryptions : SyncDecrypt(i)
    \/ SyncComplete

SpecShare == InitShare /\ [][NextShare]_vars

(***************************************************************************)
(* Overlap: after a join, a post creation and a snapshot import are called *)
(* on the joined space, the second while the first is still in flight.     *)
(***************************************************************************)
\* The handlers the user starts in this scenario: join, post, import.
OverlapOps == 3

\* The state at mount (Init), with the handlers counted so that the scenario's
\* three fit under MaxOps.
InitOverlap ==
    /\ \E stored \in StoredSpaces :
         /\ storedSpaces = {stored[i] : i \in 1..Len(stored)}
         /\ IF stored = <<>>
            THEN hydrated = TRUE /\ initTask = Idle
            ELSE hydrated = FALSE /\ initTask = [st |-> "run", parsed |-> stored]
    /\ profile \in {NoProfile, StoredProfile}
    /\ storedProfile = profile
    /\ spaces = EmptyMap
    /\ keys = EmptyMap
    /\ activeSpaceId = NoId
    /\ visiblePosts = <<>>
    /\ syncTask = Idle
    /\ createState = [busy |-> FALSE, error |-> ""]
    /\ createTask = Idle
    /\ joinState = [busy |-> FALSE, error |-> ""]
    /\ joinTask = Idle
    /\ composer = [busy |-> FALSE, error |-> ""]
    /\ postTask = Idle
    /\ importTask = Idle
    /\ last = [op |-> "mount"]
    /\ ops = MaxOps - OverlapOps
    /\ codecPc = "off"
    /\ codecId = <<>>
    /\ codecRest = <<>>
    /\ codecCode = <<>>
    /\ codecOut = [ok |-> FALSE, id |-> <<>>, secret |-> <<>>]
    /\ MergeOff
    /\ PeerOff

\* The snapshot that is imported: P1 has an id that no post held here has.
OverlapPayload == Snapshot(<<P2m, P1>>)

\* handleJoinSpace with an invite for the stored space's id.
OverlapJoin ==
    /\ ops = MaxOps - OverlapOps
    /\ JoinStart(ShareCode(IdA, KeyM))

\* The join has succeeded and fewer than two of post and import have begun.
OverlapReady ==
    /\ ops > MaxOps - OverlapOps
    /\ joinTask.st = "idle" /\ joinState.error = ""

\* handleCreatePost, first or while the import's file is being read.
OverlapPost ==
    /\ OverlapReady
    /\ ops = MaxOps - 2 \/ importTask.st = "run"
    /\ \E value \in Messages : Trim(value) # <<>> /\ PostStart(value)

\* The file input's onChange, first or while encryptText is awaited.
OverlapImport ==
    /\ OverlapReady
    /\ ops = MaxOps - 2 \/ postTask.st = "run"
    /\ ImportStart(OverlapPayload)

NextOverlap ==
    \/ OverlapJoin
    \/ JoinDone
    \/ OverlapPost
    \/ PostDone
    \/ OverlapImport
    \/ ImportDone
    \/ HydrateComplete
    \/ \E i \in PendingDecryptions : SyncDecrypt(i)
    \/ SyncComplete

SpecOverlap == InitOverlap /\ [][NextOverlap]_vars

(***************************************************************************)
(* Properties of the invite codec (checked under SpecCodec).               *)
(***************************************************************************)
SeparatorFree(s) == ~Includes(s, ":") /\ ~Includes(s, ".")
SpaceFree(s) == ~Includes(s, " ")
Decoded == codecPc \in {"decoded", "decodedLegacy"}

\* C7: a code id + separator + rest decodes to the id and the whole of the rest,
\* also when the rest holds further separator characters (the id holds none, so
\* the separator after it is the first; no part is changed by trimming).
C7_SplitsOnFirstSeparatorOnly ==
    (/\ Decoded
     /\ codecId # <<>> /\ codecRest # <<>>
     /\ SeparatorFree(codecId)
     /\ SpaceFree(codecId) /\ SpaceFree(codecRest))
    => (codecOut.ok /\ codecOut.id = codecId /\ codecOut.secret = codecRest)

\* C8 as stated: every non-empty separator-free id and secret round-trips, with
\* the canonical and with the legacy separator.
C8_RoundTripAnyWhitespace ==
    (/\ Decoded
     /\ codecId # <<>> /\ codecRest # <<>>
     /\ SeparatorFree(codecId) /\ SeparatorFree(codecRest))
    => (codecOut.ok /\ codecOut.id = codecId /\ codecOut.secret = codecRest)

\* C8 amended: every non-empty separator-free id and secret round-trips, with the
\* canonical and with the legacy separator, when the id does not start and the
\* secret does not end with whitespace (the code trims the invite first).
C8_RoundTrip ==
    (/\ Decoded
     /\ codecId # <<>> /\ codecRest # <<>>
     /\ SeparatorFree(codecId) /\ SeparatorFree(codecRest)
     /\ ~IsSpaceChar(Head(codecId)) /\ ~IsSpaceChar(codecRest[Len(codecRest)]))
    => (codecOut.ok /\ codecOut.id = codecId /\ codecOut.secret = codecRest)

\* C8 witness: a legacy invite whose parts hold inner and outer-facing whitespace
\* that trimming leaves alone has been decoded to its parts.
C8_Witness ==
    /\ codecPc = "decodedLegacy"
    /\ codecId = <<"a", " ">> /\ codecRest = <<" ", "a">>
    /\ codecOut.ok /\ codecOut.id = codecId /\ codecOut.secret = codecRest

(***************************************************************************)
(* Properties of the registry and the feed (checked under Spec).           *)
(***************************************************************************)
JoinDoneStep == joinTask.st = "run" /\ joinTask'.st = "idle" /\ last'.op = "join"
ImportDoneStep ==
    importTask.st = "run" /\ importTask'.st = "idle" /\ last'.op = "import"
SyncStep == syncTask.st = "run" /\ last'.op = "sync"
Bound(sp, ks) == (DOMAIN sp) \cap (DOMAIN ks)

\* C1: a join that completes for an id that is in the registry at that moment
\* leaves the space's posts, name, description, createdAt and ownerId as the
\* registry held them just before; only secret and key binding change.
C1_JoinPreservesPosts ==
    [][(JoinDoneStep /\ Has(spaces, joinTask.spacePart)) =>
          LET id == joinTask.spacePart
          IN  /\ spaces'[id].posts = spaces[id].posts
              /\ spaces'[id].name = spaces[id].name
              /\ spaces'[id].description = spaces[id].description
              /\ spaces'[id].createdAt = spaces[id].createdAt
              /\ spaces'[id].ownerId = spaces[id].ownerId]_vars

C3_VisibleOrderedByTimeThenId ==
    \A i, j \in 1..Len(visiblePosts) :
        i < j => \/ visiblePosts[i].createdAt > visiblePosts[j].createdAt
                 \/ /\ visiblePosts[i].createdAt = visiblePosts[j].createdAt
                    /\ visiblePosts[i].id <= visiblePosts[j].id

\* C4: a snapshot merged into a space yields the union of the local and the
\* incoming ids, and every local record stays as it was, in its place, with no
\* incoming record of a local id added.
C4_ReconcileUnionLocalWins ==
    [][(ImportDoneStep /\ Has(spaces, importTask.target)) =>
          LET id == importTask.target
              old == spaces[id].posts
              new == spaces'[id].posts
              incoming == importTask.payload.posts
          IN  /\ PostIds(new) = PostIds(old) \cup PostIds(incoming)
              /\ Len(new) >= Len(old)
              /\ SubSeq(new, 1, Len(old)) = old
              /\ \A i \in (Len(old) + 1)..Len(new) : new[i].id \notin PostIds(old)]_vars

\* C4 witness: the stored space, holding S2, has taken the snapshot <<P2m, P1>>:
\* S2 is kept against the divergent P2m of the same id, and P1 is added.
C4_Witness ==
    /\ last.op = "import" /\ last.id = IdA
    /\ Has(spaces, IdA)
    /\ spaces[IdA].posts = <<S2, P1>>

\* C5: no post collection holds two records of the same id.
C5_PostIdsUnique ==
    \A id \in DOMAIN spaces :
        \A i, j \in 1..Len(spaces[id].posts) :
            spaces[id].posts[i].id = spaces[id].posts[j].id => i = j

\* How often a value occurs in a sequence.
Count(seq, Match(_)) == Cardinality({i \in 1..Len(seq) : Match(seq[i])})

\* C6: a resolution publishes exactly one entry per post of the collection it
\* read: flagged, with the placeholder, when the post does not decrypt under the
\* key, and unflagged with the plaintext otherwise.
C6_OneEntryPerPost ==
    [][SyncStep =>
          LET key == syncTask.key
              posts == syncTask.posts
              Entry(p, v) ==
                  /\ v.id = p.id /\ v.authorId = p.authorId
                  /\ v.authorName = p.authorName /\ v.ciphertext = p.ciphertext
                  /\ v.iv = p.iv /\ v.createdAt = p.createdAt
                  /\ IF p.ciphertext.key = key /\ p.ciphertext.nonce = p.iv
                     THEN ~v.failed /\ v.content = p.ciphertext.text
                     ELSE v.failed /\ v.content = Placeholder
          IN  /\ Len(visiblePosts') = Len(posts)
              /\ \A i \in 1..Len(posts) :
                    Count(visiblePosts', LAMBDA v : Entry(posts[i], v))
                      = Count(posts, LAMBDA q : q = posts[i])]_vars

\* C6 witness: a resolution has published a feed with a flagged entry that
\* carries the placeholder next to an entry that decrypted.
C6_Witness ==
    /\ last.op = "sync"
    /\ Len(visiblePosts) = 2
    /\ \E i, j \in 1..2 :
         /\ visiblePosts[i].failed /\ visiblePosts[i].content = Placeholder
         /\ ~visiblePosts[j].failed /\ visiblePosts[j].content = <<"x">>

\* C9: a join that fails (the invite does not decode, or the secret is not
\* importable) and a create that fails change nothing but their own form state:
\* every step of such an operation leaves spaces, keys, the active id and all
\* other state as they were.
C9_FailedJoinCreateLeaveRegistry ==
    [][(last'.op \in {"joinInvalid", "joinFail"} =>
            UNCHANGED <<spaces, keys, activeSpaceId, hydrated, profile,
                        storedProfile, visiblePosts, syncTask, createState,
                        composer>>)
       /\ (last'.op = "createFail" =>
            UNCHANGED <<spaces, keys, activeSpaceId, hydrated, profile,
                        storedProfile, visiblePosts, syncTask, joinState,
                        composer>>)]_vars

\* C9 witness: a join on the id of a bound space has failed on its secret, and the
\* space still has the secret and binding it had.
C9_Witness ==
    /\ last.op = "joinFail"
    /\ joinState = [busy |-> FALSE, error |-> ErrJoinFail]
    /\ Has(spaces, IdA) /\ Has(keys, IdA)
    /\ spaces[IdA].secret = KeyK /\ keys[IdA] = ImportAesKey(KeyK)

\* C10: a space that is in the registry with a key binding stays in the registry
\* with a key binding.
C10_BoundSpacesStay ==
    [][Bound(spaces, keys) \subseteq Bound(spaces', keys')]_vars

\* C11: visiblePosts is assigned only the empty list or, in the one step that ends
\* a run, after every decryption attempt of the run has settled, the complete
\* resolution of the run's collection: one entry for every post of it.
C11_VisibleNeverPartial ==
    [][IF SyncStep
       THEN LET posts == syncTask.posts
            IN  /\ syncTask.done = 1..Len(posts)
                /\ Len(visiblePosts') = Len(posts)
                /\ \A i \in 1..Len(posts) :
                      Count(visiblePosts',
                            LAMBDA v : v.id = posts[i].id
                                       /\ v.ciphertext = posts[i].ciphertext)
                        = Count(posts, LAMBDA q : q = posts[i])
       ELSE visiblePosts' = visiblePosts \/ visiblePosts' = <<>>]_vars

\* C11 witness: a run over the two posts of the stored space has published both
\* entries at once, after both attempts had settled.
C11_Witness ==
    /\ last.op = "sync"
    /\ Has(spaces, IdA) /\ activeSpaceId = IdA
    /\ spaces[IdA].posts = <<S2, P1>>
    /\ Len(visiblePosts) = 2
    /\ PostIds(visiblePosts) = {1, 2}

\* What the feed of the current active space, posts and binding is.
ExpectedVisible ==
    IF activeSpaceId = NoId \/ ~Has(spaces, activeSpaceId) \/ ~Has(keys, activeSpaceId)
    THEN <<>>
    ELSE ResolveVisible(keys[activeSpaceId], spaces[activeSpaceId].posts)

\* C12: a run publishes only while its inputs are the current ones (the active
\* space's current posts and binding), and whenever no run is in flight
\* visiblePosts is the resolution of the active space's current posts under its
\* current binding, empty when there is no active space or no binding.
C12_OnlyCurrentRunWrites ==
    [][/\ SyncStep =>
            /\ Has(spaces, activeSpaceId) /\ Has(keys, activeSpaceId)
            /\ syncTask.key = keys[activeSpaceId]
            /\ syncTask.posts = spaces[activeSpaceId].posts
       /\ syncTask.st = "idle" => visiblePosts = ExpectedVisible
       /\ syncTask'.st = "idle" => visiblePosts' = ExpectedVisible']_vars

\* C12 witness: while the run for the stored space was in flight a space was
\* created and became the active one: the run was cancelled and the feed is that
\* of the new, empty space.
C12_Witness ==
    /\ last.op = "create" /\ last.cancelled
    /\ activeSpaceId = IdB /\ Has(spaces, IdA)
    /\ spaces[IdA].posts # <<>> /\ Has(keys, IdA)
    /\ syncTask.st = "idle"
    /\ visiblePosts = <<>>

(***************************************************************************)
(* Properties of reconcile (checked under SpecMerge).                      *)
(***************************************************************************)
\* C13: for collections A and B with ids unique within each, reconcile(A, A) has
\* the id set of A, the export of A imported into A leaves A as it is, and
\* reconcile(A, B) and reconcile(B, A) have the same id set.
C13_ReconcileIdempotentCommutative ==
    /\ mergePc = "self" => PostIds(mergeOut[1]) = PostIds(mergeA)
    /\ mergePc = "reimport" => mergeOut[1] = mergeA
    /\ mergePc = "both" => PostIds(mergeOut[1]) = PostIds(mergeOut[2])

\* C13 witness: [p1, p2] and [p2', p3], p2' diverging from p2, merged both ways:
\* three ids either way, each side keeping its own record of id 2.
C13_Witness ==
    /\ mergePc = "both"
    /\ mergeA = <<Foreign(1, KeyK, 1), Foreign(2, KeyK, 1)>>
    /\ mergeB = <<Foreign(2, KeyM, 2), Foreign(3, KeyK, 1)>>
    /\ PostIds(mergeOut[1]) = {1, 2, 3} /\ Len(mergeOut[1]) = 3
    /\ mergeOut[1][2] = Foreign(2, KeyK, 1)
    /\ mergeOut[2][1] = Foreign(2, KeyM, 2)

(***************************************************************************)
(* Properties of snapshot import and of failures (checked under Spec).     *)
(***************************************************************************)
WellFormedPost(post) ==
    /\ post.authorId # Undefined
    /\ post.iv # Undefined
    /\ post.ciphertext.nonce # Undefined

MalformedPayload(payload) ==
    ~payload.ok \/ \E i \in 1..Len(payload.posts) : ~WellFormedPost(payload.posts[i])

\* C14: an import whose payload is malformed (it does not decode, has no posts
\* array, or holds an element that is no well-formed EncryptedPost) leaves the
\* post collection of every space as it was.
C14_MalformedSnapshotRejected ==
    [][(/\ importTask.st = "run" /\ importTask'.st = "idle"
        /\ MalformedPayload(importTask.payload))
       => \A id \in DOMAIN spaces :
             Has(spaces', id) /\ spaces'[id].posts = spaces[id].posts]_vars

\* What a caller of the handlers can observe.
Observable ==
    <<hydrated, profile, spaces, keys, activeSpaceId, visiblePosts, createState,
      joinState, composer>>

\* C15: every failing operation sets an error indicator: a failed create sets
\* createState.error, a failed join joinState.error, a failed post creation
\* composer.error, and a failed snapshot import changes some state the caller
\* can observe.
C15_FailuresAreSignalled ==
    [][/\ last'.op = "createFail" => createState'.error # ""
       /\ last'.op \in {"joinInvalid", "joinFail"} => joinState'.error # ""
       /\ last'.op = "postFail" => composer'.error # ""
       /\ last'.op = "importReject" => Observable' # Observable]_vars

(***************************************************************************)
(* Properties of the stored identity record (checked under Spec).          *)
(***************************************************************************)
Remembered(p, stored) ==
    /\ stored # NoProfile <=> (p # NoProfile /\ p.remember)
    /\ stored # NoProfile => stored = p

\* C17: after hydration the stored identity record exists exactly when a profile
\* exists whose remember flag is true, and it is that profile; turning remember
\* off removes the record, and no profile whose remember flag is false is ever
\* written.
C17_StoredProfileIffRemembered ==
    [][/\ hydrated => Remembered(profile, storedProfile)
       /\ hydrated' => Remembered(profile', storedProfile')
       /\ (storedProfile' # storedProfile /\ storedProfile' # NoProfile)
            => storedProfile'.remember]_vars

\* C17 witness: the profile that was stored has had remember switched off after
\* hydration, and the stored record is gone.
C17_Witness ==
    /\ last.op = "remember"
    /\ hydrated
    /\ profile = [StoredProfile EXCEPT !.remember = FALSE]
    /\ storedProfile = NoProfile

(***************************************************************************)
(* Properties of join and post creation (checked under Spec).              *)
(***************************************************************************)
BindingOf(ks, id) == IF Has(ks, id) THEN <<ks[id]>> ELSE <<>>

\* C18: a space that stays in the registry keeps its id, and its secret and its
\* key binding change only in the step in which a join on its id succeeds.
C18_SecretChangesOnlyByJoin ==
    [][\A id \in (DOMAIN spaces) \cap (DOMAIN spaces') :
          /\ spaces'[id].id = spaces[id].id
          /\ (\/ spaces'[id].secret # spaces[id].secret
              \/ BindingOf(keys', id) # BindingOf(keys, id))
             => (JoinDoneStep /\ joinTask.spacePart = id)]_vars

C20_AppendedPostUnderCurrentKey ==
    [][(postTask.st = "run" /\ last'.op = "post" /\ Has(spaces, postTask.spaceId))
       => LET id == postTask.spaceId
              posts == spaces'[id].posts
              post == posts[Len(posts)]
          IN  /\ Has(keys', id)
              /\ ~ResolvePost(keys'[id], post).failed]_vars

(***************************************************************************)
(* Properties of membership by invite (checked under SpecShare).           *)
(***************************************************************************)
\* This device has joined and imported, and nothing is in flight any more.
ShareSettled ==
    /\ ops = 2
    /\ joinTask.st = "idle" /\ importTask.st = "idle"
    /\ initTask.st = "idle" /\ syncTask.st = "idle"

\* C16: once this device has joined with the share code of the other device's
\* space and then imported that space's snapshot, every post created on the
\* other device is in this device's feed, unflagged, with the plaintext it has
\* on the other device.
C16_InviteReconstructsMembership ==
    ShareSettled =>
        \A i \in 1..Len(peer.space.posts) :
            LET post == peer.space.posts[i]
            IN  \E j \in 1..Len(visiblePosts) :
                    /\ visiblePosts[j].id = post.id
                    /\ ~visiblePosts[j].failed
                    /\ visiblePosts[j].content
                         = DecryptText(peer.key, post.ciphertext, post.iv)

(***************************************************************************)
(* Properties of the active space, persistence and posting (under Spec).   *)
(***************************************************************************)
\* C23: the active space id is null or the id of a space in the registry.
C23_ActiveIdInRegistry == activeSpaceId = NoId \/ Has(spaces, activeSpaceId)

\* Hydration has completed after a create or join made another space active: the
\* registry lost that space and the first stored space is the active one.
C23_Witness ==
    /\ last.op = "hydrate" /\ last.lost # {}
    /\ activeSpaceId = IdA /\ Has(spaces, IdA)

\* C22: until hydration has completed the stored collection is the one the
\* previous session left (the one initialize parsed), and once it has, the
\* stored collection is the registry's records, secrets and posts included.
C22_StoredSpacesFollowRegistry ==
    /\ ~hydrated =>
          /\ initTask.st = "run"
          /\ storedSpaces = {initTask.parsed[i] : i \in 1..Len(initTask.parsed)}
    /\ hydrated =>
          /\ DOMAIN spaces = {r.id : r \in storedSpaces}
          /\ \A r \in storedSpaces :
                /\ r = spaces[r.id]
                /\ r.secret = spaces[r.id].secret
                /\ r.posts = spaces[r.id].posts

\* After hydration a snapshot was merged into the stored space: the stored
\* record has the merged posts and the raw secret.
C22_Witness ==
    /\ hydrated /\ last.op = "import"
    /\ \E r \in storedSpaces :
          /\ r.id = IdA /\ r.secret = KeyK
          /\ Len(r.posts) = 2 /\ r.posts = spaces[IdA].posts

PostsOf(sp) == [id \in DOMAIN sp |-> sp[id].posts]

\* C24: handleCreatePost goes on to encrypt only with an active space, a profile,
\* a non-blank message and a binding for the active space; a call that lacks one
\* sets a composer error and leaves every post collection as it is; a call that
\* completes without an error has appended exactly one post, with the profile's
\* id and name as author, to the space that was active when it began, and has
\* changed no other space.
C24_PostAppendsOnceWhenComplete ==
    [][/\ last'.op = "postRejected" =>
            /\ composer'.error # ""
            /\ PostsOf(spaces') = PostsOf(spaces)
       /\ last'.op = "postStart" =>
            /\ activeSpaceId # NoId /\ profile # NoProfile
            /\ Has(keys, activeSpaceId)
            /\ postTask'.message # <<>>
            /\ postTask'.spaceId = activeSpaceId
            /\ PostsOf(spaces') = PostsOf(spaces)
       /\ (postTask.st = "run" /\ last'.op = "post") =>
            LET id == postTask.spaceId
            IN  /\ composer'.error = ""
                /\ Has(spaces, id) /\ DOMAIN spaces' = DOMAIN spaces
                /\ Len(spaces'[id].posts) = Len(spaces[id].posts) + 1
                /\ SubSeq(spaces'[id].posts, 1, Len(spaces[id].posts))
                     = spaces[id].posts
                /\ LET post == spaces'[id].posts[Len(spaces'[id].posts)]
                   IN  /\ profile # NoProfile
                       /\ post.authorId = profile.id
                       /\ post.authorName = profile.name
                /\ \A other \in (DOMAIN spaces) \ {id} :
                      spaces'[other] = spaces[other]]_vars

(***************************************************************************)
(* Properties of overlapping updates (checked under SpecOverlap).          *)
(***************************************************************************)
\* The post creation and the import have both been started, the second while
\* the first was in flight, and nothing is in flight any more.
OverlapSettled ==
    /\ ops = MaxOps
    /\ composer.error = ""
    /\ initTask.st = "idle" /\ joinTask.st = "idle"
    /\ postTask.st = "idle" /\ importTask.st = "idle"

\* C21: when a post creation and a snapshot import on the same space have
\* overlapped and both are complete, the space's posts hold the post created
\* here and the imported post whose id was new.
C21_OverlapLosesNoUpdate ==
    OverlapSettled =>
        /\ Has(spaces, IdA)
        /\ \E i \in 1..Len(spaces[IdA].posts) :
              /\ spaces[IdA].posts[i].id \in LocalPostIds
              /\ spaces[IdA].posts[i].authorId = profile.id
        /\ \E i \in 1..Len(spaces[IdA].posts) : spaces[IdA].posts[i] = P1

====
